---- MODULE Spec2Model ----
(***************************************************************************)
(* Model of antibodies-tsv-util: the helper functions that reconcile an    *)
(* antibodies.tsv table with the channel labels of an image stack and emit *)
(* structured annotations.                                                 *)
(*                                                                         *)
(* The library has no state of its own: every function is called with      *)
(* arguments and returns a value or raises.  The state machine is a caller *)
(* that is idle, calls one function (one action per function, the whole    *)
(* body of the function in one step) and returns to idle.                  *)
(*                                                                         *)
(* fn names the function called, args holds its arguments by name, ret the *)
(* value it returned under the name of the function, exc the exception it  *)
(* raised ("none" without one), xml the document object the caller holds.  *)
(*                                                                         *)
(* A Python str is a sequence of one-character strings, so that the        *)
(* regular expressions, str.find, slicing, str.lower, int() and str() of   *)
(* the source are computed character by character.                         *)
(***************************************************************************)
EXTENDS Integers, Sequences, FiniteSets, TLC

VARIABLES fn, args, ret, exc, xml

vars == <<fn, args, ret, exc, xml>>

(***************************************************************************)
(* Bounds of the model.                                                    *)
(***************************************************************************)
\* longest list of channel names given to add_cycle_channel_numbers
MaxNames == 9
\* most rows of an antibodies table
MaxRows == 2
\* most acquired channels of an og_ch_names_df
MaxChannels == 2
\* most pieces an XML document text is assembled from
MaxPieces == 3
\* most file names a walked directory tree holds
MaxFiles == 2

(***************************************************************************)
(* Python values.                                                          *)
(***************************************************************************)
\* Python's None, for Optional values: a value is [present, value]
None == [present |-> FALSE, value |-> <<>>]
Some(v) == [present |-> TRUE, value |-> v]

\* the value of an outcome [exc, ret] that raised
NoValue == <<>>

\* args while no function is called
NoArgs == [no_args |-> TRUE]

\* ret while nothing was returned: no call, or a call that raised
NoReturn == [no_return |-> TRUE]

\* ret after function f returned v: the value under the name of the function
Returned(f, v) == [k \in {f} |-> v]

\* ret after a call of f with the outcome out = [exc, ret]
ReturnOf(f, out) == IF out.exc = "none" THEN Returned(f, out.ret) ELSE NoReturn

\* xml while no document is held: a document without channels
NoDocument == [names |-> <<>>, ids |-> <<>>, structured_annotations |-> <<>>]

Min(a, b) == IF a < b THEN a ELSE b
Max(a, b) == IF a > b THEN a ELSE b

UpperCase == <<"A","B","C","D","E","F","G","H","I","J","K","L","M",
               "N","O","P","Q","R","S","T","U","V","W","X","Y","Z">>
LowerCase == <<"a","b","c","d","e","f","g","h","i","j","k","l","m",
               "n","o","p","q","r","s","t","u","v","w","x","y","z">>

\* str.lower on one character
LowerChar(c) ==
    IF \E i \in 1..Len(UpperCase) : UpperCase[i] = c
    THEN LowerCase[CHOOSE i \in 1..Len(UpperCase) : UpperCase[i] = c]
    ELSE c

\* str.lower
lower(s) == [i \in 1..Len(s) |-> LowerChar(s[i])]

Digits == <<"0","1","2","3","4","5","6","7","8","9">>

\* \d of a regular expression
IsDigit(c) == \E i \in 1..Len(Digits) : Digits[i] = c

DigitVal(c) == (CHOOSE i \in 1..Len(Digits) : Digits[i] = c) - 1

\* \s of a regular expression
IsSpace(c) == c \in {" ", "\t"}

\* int(s) on a string of decimal digits
RECURSIVE int(_)
int(s) ==
    IF Len(s) = 0 THEN 0
    ELSE 10 * int(SubSeq(s, 1, Len(s) - 1)) + DigitVal(s[Len(s)])

\* str(n) for n >= 0
RECURSIVE str(_)
str(n) ==
    IF n < 10 THEN <<Digits[n + 1]>>
    ELSE str(n \div 10) \o <<Digits[(n % 10) + 1]>>

\* s[a:b], with Python's treatment of negative and too large indices
Slice(s, a, b) ==
    LET n  == Len(s)
        lo == IF a < 0 THEN Max(a + n, 0) ELSE Min(a, n)
        hi == IF b < 0 THEN Max(b + n, 0) ELSE Min(b, n)
    IN SubSeq(s, lo + 1, hi)

\* s[a:]
SliceFrom(s, a) == Slice(s, a, Len(s))

\* s[:b]
SliceTo(s, b) == Slice(s, 0, b)

\* s.startswith(p, i), i counted from 0
StartsWithAt(s, p, i) ==
    /\ i >= 0
    /\ i + Len(p) <= Len(s)
    /\ \A j \in 1..Len(p) : s[i + j] = p[j]

\* the same under re.IGNORECASE
StartsWithAtCI(s, p, i) ==
    /\ i >= 0
    /\ i + Len(p) <= Len(s)
    /\ \A j \in 1..Len(p) : LowerChar(s[i + j]) = LowerChar(p[j])

\* str.rfind in the place of str.find: the offset of the last occurrence
find_last(s, p) ==
    IF \E i \in 0..Len(s) : StartsWithAt(s, p, i)
    THEN CHOOSE i \in 0..Len(s) :
            /\ StartsWithAt(s, p, i)
            /\ \A k \in (i + 1)..Len(s) : ~StartsWithAt(s, p, k)
    ELSE -1

\* str.find: the offset of the first occurrence, or -1
find(s, p) ==
    IF \E i \in 0..Len(s) : StartsWithAt(s, p, i)
    THEN CHOOSE i \in 0..Len(s) :
            /\ StartsWithAt(s, p, i)
            /\ \A k \in 0..(i - 1) : ~StartsWithAt(s, p, k)
    ELSE -1

\* the offset after the longest run of digits that starts at offset i
RECURSIVE DigitRunEnd(_, _)
DigitRunEnd(s, i) ==
    IF i < Len(s) /\ IsDigit(s[i + 1]) THEN DigitRunEnd(s, i + 1) ELSE i

\* the offset after the longest run of whitespace that starts at offset i
RECURSIVE SpaceRunEnd(_, _)
SpaceRunEnd(s, i) ==
    IF i < Len(s) /\ IsSpace(s[i + 1]) THEN SpaceRunEnd(s, i + 1) ELSE i

(***************************************************************************)
(* String literals of the source.                                          *)
(***************************************************************************)
s_cyc      == <<"c","y","c">>
s_cycle    == <<"c","y","c","l","e">>
s_ch       == <<"_","c","h">>
s_orig     == <<"_","o","r","i","g">>
s_Anti     == <<"A","n","t","i","-">>
s_antibody == <<"a","n","t","i","b","o","d","y">>
s_Image    == <<"<","/","I","m","a","g","e",">">>
s_tsv      == <<"a","n","t","i","b","o","d","i","e","s",".","t","s","v">>
s_Channel0 == <<"C","h","a","n","n","e","l",":","0",":">>
s_None     == <<"N","o","n","e">>

(***************************************************************************)
(* add_cycle_channel_numbers                                               *)
(***************************************************************************)
\* "Assuming 4 channels per cycle"
ChannelsPerCycle == 4

\* f"cyc{cycle_count}_ch{channel_count}_orig{original_name}"
new_name(cycle_count, channel_count, original_name) ==
    s_cyc \o str(cycle_count) \o s_ch \o str(channel_count)
          \o s_orig \o original_name

\* the loop of add_cycle_channel_numbers over channel_names[i..], with the
\* two counters as they stand before the i-th name
RECURSIVE add_cycle_channel_loop(_, _, _, _)
add_cycle_channel_loop(channel_names, i, cycle_count, channel_count) ==
    IF i > Len(channel_names) THEN <<>>
    ELSE LET bumped == channel_count + 1
             wrap   == bumped > ChannelsPerCycle
         IN <<new_name(cycle_count, channel_count, channel_names[i])>>
            \o add_cycle_channel_loop(channel_names, i + 1,
                   IF wrap THEN cycle_count + 1 ELSE cycle_count,
                   IF wrap THEN 1 ELSE bumped)

add_cycle_channel_numbers(channel_names) ==
    add_cycle_channel_loop(channel_names, 1, 1, 1)

(***************************************************************************)
(* create_original_channel_names_df                                        *)
(***************************************************************************)
\* whether cyc(\d+)_ch(\d+)_orig(.*) matches at offset i
cyc_ch_match_at(s, i) ==
    LET a == i + Len(s_cyc)
        b == DigitRunEnd(s, a)
        c == b + Len(s_ch)
        d == DigitRunEnd(s, c)
    IN /\ StartsWithAt(s, s_cyc, i)
       /\ b > a
       /\ StartsWithAt(s, s_ch, b)
       /\ d > c
       /\ StartsWithAt(s, s_orig, d)

\* Series.str.extract(cyc_ch_pattern) on one label: the three groups of the
\* first match as strings, or absent (a row of NaN) without a match
str_extract(label) ==
    IF \E i \in 0..Len(label) : cyc_ch_match_at(label, i)
    THEN LET i == CHOOSE m \in 0..Len(label) :
                    /\ cyc_ch_match_at(label, m)
                    /\ \A k \in 0..(m - 1) : ~cyc_ch_match_at(label, k)
             a == i + Len(s_cyc)
             b == DigitRunEnd(label, a)
             c == b + Len(s_ch)
             d == DigitRunEnd(label, c)
         IN Some([Cycle        |-> Slice(label, a, b),
                  Channel      |-> Slice(label, c, d),
                  channel_name |-> SliceFrom(label, d + Len(s_orig))])
    ELSE None

\* pd.to_numeric on the Cycle and Channel columns: the dtype of the result
to_numeric_dtype(extracted) ==
    IF \A i \in 1..Len(extracted) : extracted[i].present
    THEN "int64" ELSE "float64"

\* the frame before its channel_id column is built: Original_Channel_Name,
\* Cycle, Channel (numbers), channel_name
og_ch_names_rows(channelList) ==
    [i \in 1..Len(channelList) |->
        LET e == str_extract(channelList[i])
        IN IF e.present
           THEN [Original_Channel_Name |-> channelList[i],
                 matched      |-> TRUE,
                 Cycle        |-> int(e.value.Cycle),
                 Channel      |-> int(e.value.Channel),
                 channel_name |-> e.value.channel_name]
           ELSE [Original_Channel_Name |-> channelList[i],
                 matched      |-> FALSE,
                 Cycle        |-> 0,
                 Channel      |-> 0,
                 channel_name |-> <<>>]]

\* "cycle" + og_ch_names_df["Cycle"]: a str added to a column of dtype d.
\* pandas hands the addition to numpy, which has no loop adding a str to a
\* numeric array and raises TypeError; only an object (str) column is
\* concatenated.
str_plus_column_raises(dtype) == dtype \in {"int64", "float64"}

\* the outcome of create_original_channel_names_df: [exc, ret]
create_original_channel_names_df(channelList) ==
    LET extracted == [i \in 1..Len(channelList) |-> str_extract(channelList[i])]
        rows      == og_ch_names_rows(channelList)
    IN IF str_plus_column_raises(to_numeric_dtype(extracted))
       THEN [exc |-> "TypeError", ret |-> NoValue]
       ELSE [exc |-> "none",
             ret |-> [i \in 1..Len(rows) |->
                        [Cycle        |-> rows[i].Cycle,
                         Channel      |-> rows[i].Channel,
                         channel_name |-> rows[i].channel_name,
                         channel_id   |-> s_cycle \o str(rows[i].Cycle)
                                          \o s_ch \o str(rows[i].Channel)]]]

(***************************************************************************)
(* get_analyte_name                                                        *)
(***************************************************************************)
\* re.sub(r"Anti-", "", s): every occurrence, left to right, from offset i
RECURSIVE sub_Anti(_, _)
sub_Anti(s, i) ==
    IF i >= Len(s) THEN <<>>
    ELSE IF StartsWithAt(s, s_Anti, i)
         THEN sub_Anti(s, i + Len(s_Anti))
         ELSE <<s[i + 1]>> \o sub_Anti(s, i + 1)

\* re.sub(r"\s+antibody", "", s): every occurrence, left to right, from
\* offset i
RECURSIVE sub_antibody(_, _)
sub_antibody(s, i) ==
    IF i >= Len(s) THEN <<>>
    ELSE LET e == SpaceRunEnd(s, i)
         IN IF e > i /\ StartsWithAt(s, s_antibody, e)
            THEN sub_antibody(s, e + Len(s_antibody))
            ELSE <<s[i + 1]>> \o sub_antibody(s, i + 1)

get_analyte_name(antibody_name) ==
    sub_antibody(sub_Anti(antibody_name, 0), 0)

(***************************************************************************)
(* find_antibodies_meta                                                    *)
(***************************************************************************)
\* [0-9A-Za-z\-_]
IsNameChar(c) ==
    \/ IsDigit(c)
    \/ \E i \in 1..Len(UpperCase) : UpperCase[i] = c \/ LowerCase[i] = c
    \/ c \in {"-", "_"}

\* metadata_filename_pattern.match(filename), the pattern being
\* ^[0-9A-Za-z\-_]*antibodies\.tsv$
metadata_filename_match(filename) ==
    LET k == Len(filename) - Len(s_tsv)
    IN /\ k >= 0
       /\ StartsWithAt(filename, s_tsv, k)
       /\ \A i \in 1..k : IsNameChar(filename[i])

\* found_files of find_antibodies_meta, the file names in the order of the
\* walk
RECURSIVE found_files(_)
found_files(filenames) ==
    IF Len(filenames) = 0 THEN <<>>
    ELSE (IF metadata_filename_match(Head(filenames))
          THEN <<Head(filenames)>> ELSE <<>>)
         \o found_files(Tail(filenames))

find_antibodies_meta(filenames) ==
    IF Len(found_files(filenames)) = 0
    THEN None
    ELSE Some(found_files(filenames)[1])

(***************************************************************************)
(* sort_by_cycle                                                           *)
(***************************************************************************)
\* pd.read_table: a frame is [index, rows]; a frame just read has a
\* RangeIndex
read_table(rows) ==
    [index |-> [i \in 1..Len(rows) |-> <<i - 1>>], rows |-> rows]

\* whether cycle(?P<cycle>\d+)_ch(?P<channel>\d+), re.IGNORECASE, matches
\* at offset i
cycle_channel_match_at(s, i) ==
    LET a == i + Len(s_cycle)
        b == DigitRunEnd(s, a)
        c == b + Len(s_ch)
        d == DigitRunEnd(s, c)
    IN /\ StartsWithAtCI(s, s_cycle, i)
       /\ b > a
       /\ StartsWithAtCI(s, s_ch, b)
       /\ d > c

\* cycle_channel_pattern.search(v): the two groups of the first match, or
\* None
cycle_channel_search(v) ==
    IF \E i \in 0..Len(v) : cycle_channel_match_at(v, i)
    THEN LET i == CHOOSE m \in 0..Len(v) :
                    /\ cycle_channel_match_at(v, m)
                    /\ \A k \in 0..(m - 1) : ~cycle_channel_match_at(v, k)
             a == i + Len(s_cycle)
             b == DigitRunEnd(v, a)
             c == b + Len(s_ch)
             d == DigitRunEnd(v, c)
         IN Some([cycle |-> Slice(v, a, b), channel |-> Slice(v, c, d)])
    ELSE None

\* the key of a row in the index sort_by_cycle builds:
\* (int(s.group("cycle")), int(s.group("channel")))
cycle_channel_key(channel_id) ==
    LET g == cycle_channel_search(channel_id).value
    IN <<int(g.cycle), int(g.channel)>>

\* an index sorted on its second level first
key_less_channel_first(j, k) == j[2] < k[2] \/ (j[2] = k[2] /\ j[1] < k[1])

\* the order of a sorted MultiIndex: cycle first, channel second, as numbers
key_less(j, k) == j[1] < k[1] \/ (j[1] = k[1] /\ j[2] < k[2])

\* one step of df.sort_index(): entry e put into the sorted frame, behind
\* the entries of an equal key (the sort of a MultiIndex is stable)
RECURSIVE sort_insert(_, _)
sort_insert(sorted, e) ==
    IF Len(sorted) = 0 THEN <<e>>
    ELSE IF key_less(e.key, Head(sorted).key)
         THEN <<e>> \o sorted
         ELSE <<Head(sorted)>> \o sort_insert(Tail(sorted), e)

\* df.sort_index() on the entries [key, row]
RECURSIVE sort_index(_)
sort_index(entries) ==
    IF Len(entries) = 0 THEN <<>>
    ELSE sort_insert(sort_index(SubSeq(entries, 1, Len(entries) - 1)),
                     entries[Len(entries)])

\* the outcome of sort_by_cycle on the rows read from antb_path: [exc, ret]
sort_by_cycle(rows) ==
    IF \E i \in 1..Len(rows) : ~cycle_channel_search(rows[i].channel_id).present
    THEN [exc |-> "AttributeError", ret |-> NoValue]
    ELSE LET entries == [i \in 1..Len(rows) |->
                            [key |-> cycle_channel_key(rows[i].channel_id),
                             row |-> rows[i]]]
             sorted  == sort_index(entries)
         IN [exc |-> "none",
             ret |-> [index |-> [i \in 1..Len(sorted) |-> sorted[i].key],
                      rows  |-> [i \in 1..Len(sorted) |-> sorted[i].row]]]

(***************************************************************************)
(* get_ch_info_from_antibodies_meta                                        *)
(***************************************************************************)
\* adds the column "target"
get_ch_info_from_antibodies_meta(df) ==
    [index |-> df.index,
     rows  |-> [i \in 1..Len(df.rows) |->
                  [channel_id    |-> df.rows[i].channel_id,
                   antibody_name |-> df.rows[i].antibody_name,
                   uniprot_accession_number |->
                       df.rows[i].uniprot_accession_number,
                   rr_id         |-> df.rows[i].rr_id,
                   target        |-> get_analyte_name(df.rows[i].antibody_name)]]]

(***************************************************************************)
(* map_cycles_and_channels, replace_provider_ch_names_with_antb,           *)
(* get_original_names                                                      *)
(***************************************************************************)
\* a mapping that keeps the first row of a key instead of the last
map_first_row_wins(antibodies_df) ==
    LET rows == antibodies_df.rows
        keys == {lower(rows[i].channel_id) : i \in 1..Len(rows)}
        first(k) == CHOOSE i \in 1..Len(rows) :
                      /\ lower(rows[i].channel_id) = k
                      /\ \A j \in 1..(i - 1) :
                            lower(rows[j].channel_id) # k
    IN [k \in keys |-> rows[first(k)].target]

\* the dict comprehension {channel_id.lower(): target for ... in zip(...)}:
\* a later row overwrites an earlier one under the same key.  The argument
\* is a frame (antibodies_df["channel_id"] on None raises TypeError, which
\* the callers below account for)
map_cycles_and_channels(antibodies_df) ==
    LET rows == antibodies_df.rows
        keys == {lower(rows[i].channel_id) : i \in 1..Len(rows)}
        last(k) == CHOOSE i \in 1..Len(rows) :
                      /\ lower(rows[i].channel_id) = k
                      /\ \A j \in (i + 1)..Len(rows) :
                            lower(rows[j].channel_id) # k
    IN [k \in keys |-> rows[last(k)].target]

\* mapping.get(channel_id, None)
dict_get(mapping, key) ==
    IF key \in DOMAIN mapping THEN Some(mapping[key]) ELSE None

\* the outcome of replace_provider_ch_names_with_antb: [exc, ret];
\* antibodies_df is Optional
replace_provider_ch_names_with_antb(og_ch_names_df, antibodies_df) ==
    IF ~antibodies_df.present
    THEN [exc |-> "TypeError", ret |-> NoValue]
    ELSE LET mapping == map_cycles_and_channels(antibodies_df.value)
         IN [exc |-> "none",
             ret |-> [i \in 1..Len(og_ch_names_df) |->
                        LET channel_id    == lower(og_ch_names_df[i].channel_id)
                            original_name == og_ch_names_df[i].channel_name
                            target        == dict_get(mapping, channel_id)
                        IN IF target.present THEN target.value
                                             ELSE original_name]]

\* the outcome of get_original_names: [exc, ret]; antibodies_df is Optional
get_original_names(og_ch_names_df, antibodies_df) ==
    IF ~antibodies_df.present
    THEN [exc |-> "TypeError", ret |-> NoValue]
    ELSE LET mapping == map_cycles_and_channels(antibodies_df.value)
         IN [exc |-> "none",
             ret |-> [i \in 1..Len(og_ch_names_df) |->
                        LET channel_id    == lower(og_ch_names_df[i].channel_id)
                            original_name == og_ch_names_df[i].channel_name
                            target        == dict_get(mapping, channel_id)
                        IN IF target.present THEN original_name
                                             ELSE s_None]]

(***************************************************************************)
(* generate_channel_ids                                                    *)
(***************************************************************************)
\* [f"Channel:0:{i}" for i in range(len(channelNames))]
generate_channel_ids(channelNames) ==
    [i \in 1..Len(channelNames) |-> s_Channel0 \o str(i - 1)]

(***************************************************************************)
(* generate_sa_ch_info (object-model variant)                              *)
(***************************************************************************)
\* antb_info.loc[(cycle, channel), :]: the positions of the index that hold
\* the key
loc(antb_info, key) ==
    {i \in 1..Len(antb_info.index) : antb_info.index[i] = key}

\* the outcome of generate_sa_ch_info: [exc, ret], ret the Optional
\* MapAnnotation, a sequence of <<k, value>>.  Without the key .loc raises
\* KeyError, which is caught; with the key held once it gives the row; with
\* the key held by several rows it gives a frame, whose columns are no str
\* and which Map.M(value=...) rejects
generate_sa_ch_info(channel_id, og_ch_names_info, antb_info) ==
    IF ~antb_info.present
    THEN [exc |-> "none", ret |-> None]
    ELSE LET cycle   == og_ch_names_info.Cycle
             channel == og_ch_names_info.Channel
             found   == loc(antb_info.value, <<cycle, channel>>)
         IN IF found = {}
            THEN [exc |-> "none", ret |-> None]
            ELSE IF Cardinality(found) > 1
            THEN [exc |-> "ValidationError", ret |-> NoValue]
            ELSE LET antb_row == antb_info.value.rows[CHOOSE i \in found : TRUE]
                 IN [exc |-> "none",
                     ret |-> Some(<<
                        <<"Channel ID", channel_id>>,
                        <<"Name", antb_row.target>>,
                        <<"Original Name", og_ch_names_info.channel_name>>,
                        <<"UniprotID", antb_row.uniprot_accession_number>>,
                        <<"RRID", antb_row.rr_id>>,
                        <<"AntibodiesTsvID", antb_row.channel_id>> >>)]

(***************************************************************************)
(* generate_structured_annotations (object-model variant)                  *)
(***************************************************************************)
\* the number of parameters of generate_sa_ch_info
generate_sa_ch_info_params == 3
\* the number of arguments generate_structured_annotations calls it with:
\* generate_sa_ch_info(ch_name, original_name, antb_info, channel_id)
generate_sa_ch_info_call_args == 4

\* the call in the loop of generate_structured_annotations: Python raises
\* TypeError when the number of positional arguments is not that of the
\* parameters, before the body runs
call_generate_sa_ch_info(ch_name, original_name, antb_info, channel_id) ==
    IF generate_sa_ch_info_call_args # generate_sa_ch_info_params
    THEN [exc |-> "TypeError", ret |-> NoValue]
    ELSE generate_sa_ch_info(ch_name, original_name, antb_info)

\* the loop "for i in range(len(channelNames))" from the i-th channel on,
\* st = [exc, xml, annotations] as it stands before
RECURSIVE annotations_loop(_, _, _, _, _, _)
annotations_loop(st, i, channel_ids, original_channel_names, antb_info, channelNames) ==
    IF i > Len(channelNames) THEN st
    ELSE LET named == [st.xml EXCEPT !.names[i] = channelNames[i],
                                     !.ids[i]   = channel_ids[i]]
             ch_info == call_generate_sa_ch_info(channelNames[i],
                            original_channel_names[i], antb_info,
                            channel_ids[i])
         IN IF ch_info.exc # "none"
            THEN [st EXCEPT !.exc = ch_info.exc, !.xml = named]
            ELSE annotations_loop(
                    [st EXCEPT !.xml = named,
                               !.annotations = Append(@, ch_info.ret)],
                    i + 1, channel_ids, original_channel_names, antb_info,
                    channelNames)

\* the outcome of generate_structured_annotations: [exc, ret, xml], xml the
\* document object as the call leaves it (it is changed in place), ret the
\* returned document
generate_structured_annotations(xml_doc, channel_ids, og_ch_names_df, antb_info, channelNames) ==
    LET original_channel_names == get_original_names(og_ch_names_df, antb_info)
    IN IF original_channel_names.exc # "none"
       THEN [exc |-> original_channel_names.exc, ret |-> NoValue,
             xml |-> xml_doc]
       ELSE LET st == annotations_loop(
                         [exc |-> "none", xml |-> xml_doc,
                          annotations |-> <<>>],
                         1, channel_ids, original_channel_names.ret,
                         antb_info, channelNames)
            IN IF st.exc # "none"
               THEN [exc |-> st.exc, ret |-> NoValue, xml |-> st.xml]
               ELSE LET done == [st.xml EXCEPT
                                   !.structured_annotations = st.annotations]
                    IN [exc |-> "none", ret |-> done, xml |-> done]

(***************************************************************************)
(* add_structured_annotations (string-template variant)                    *)
(***************************************************************************)
add_structured_annotations(xml_string, sa_str) ==
    LET sa_placement == find(xml_string, s_Image) + Len(s_Image)
    IN SliceTo(xml_string, sa_placement) \o sa_str
       \o SliceFrom(xml_string, sa_placement)

(***************************************************************************)
(* The inputs the functions are called with.                               *)
(***************************************************************************)
\* all sequences over S of length lo..hi
SeqsOf(S, lo, hi) == UNION {[1..n -> S] : n \in lo..hi}

\* channel names as an image stack gives them: an empty name and a name
\* with an underscore and a digit
s_CD_3 == <<"C","D","_","3">>
ChannelNameChoices == {<<>>, s_CD_3}

ChannelNameLists == SeqsOf(ChannelNameChoices, 1, MaxNames)

\* labels that are not of the form cyc<c>_ch<k>_orig<name>
s_DAPI == <<"D","A","P","I">>
s_bad_label == <<"c","y","c","1","_","c","h","_","o","r","i","g">>

\* the lists create_original_channel_names_df is called with: the labels of
\* add_cycle_channel_numbers, a label with leading zeros, and lists holding
\* a label without the pattern
LabelLists ==
    {add_cycle_channel_numbers(ns) : ns \in ChannelNameLists}
    \cup {<<s_cyc \o <<"0","1">> \o s_ch \o <<"0","2">> \o s_orig \o s_CD_3>>,
          <<s_DAPI>>, <<s_bad_label>>,
          <<new_name(1, 1, s_DAPI), s_DAPI>>}

\* antibody names
s_CD3  == <<"C","D","3">>
s_CD4  == <<"C","D","4">>
s_CD8  == <<"C","D","8">>
s_sp   == <<" ">>

\* "Anti-" + X + " antibody"
AntiXAntibody(X) == s_Anti \o X \o s_sp \o s_antibody

\* the X of antibody names "Anti-X antibody"
Analytes ==
    {s_CD3, <<>>, s_CD_3,
     s_Anti \o s_CD3,
     s_CD3 \o s_sp \o s_antibody \o s_sp \o <<"F","a","b">>,
     <<"H","L","A">> \o <<"\t">> \o <<"D","R">>}

\* antibody names with neither, or only one, of the prefix and the suffix
PlainAntibodyNames ==
    {s_CD3, <<>>, s_Anti \o s_CD3, s_CD3 \o s_sp \o s_antibody,
     <<"a","n","t","i","-">> \o s_CD3, s_CD3 \o s_antibody,
     s_CD3 \o <<" ","\t">> \o s_antibody}

AntibodyNames == {AntiXAntibody(X) : X \in Analytes} \cup PlainAntibodyNames

Row(channel_id, antibody_name, uniprot, rrid) ==
    [channel_id |-> channel_id, antibody_name |-> antibody_name,
     uniprot_accession_number |-> uniprot, rr_id |-> rrid]

\* cycle<c>_ch<k> as the tsv writes it
ChId(c, k) == s_cycle \o c \o s_ch \o k

\* rows of an antibodies.tsv: plain channel_ids, one in upper case, one with
\* leading zeros, one with text around the pattern, one without the pattern
AntibodyRows ==
    {Row(ChId(<<"1">>, <<"2">>), AntiXAntibody(s_CD3),
         <<"P","0","4","2","3","4">>, <<"A","B","_","1","2","3","4">>),
     Row(<<"C","Y","C","L","E","1","_","C","H","2">>, AntiXAntibody(s_CD4),
         <<"P","2">>, <<"A","B","_","2">>),
     Row(ChId(<<"0","1">>, <<"1">>), s_CD8,
         <<"P","3">>, <<"A","B","_","3">>),
     Row(ChId(<<"2">>, <<"1">>), AntiXAntibody(s_CD8),
         <<"P","5">>, <<"A","B","_","5">>),
     Row(ChId(<<"1","0">>, <<"1">>), AntiXAntibody(s_CD_3),
         <<"P","6">>, <<"A","B","_","6">>),
     Row(<<"x">> \o ChId(<<"2">>, <<"2">>) \o <<"x">>, AntiXAntibody(s_CD4),
         <<"P","7">>, <<"A","B","_","7">>),
     Row(s_cyc \o <<"1">> \o s_ch \o <<"1">>, AntiXAntibody(s_CD3),
         <<"P","8">>, <<"A","B","_","8">>)}

\* the tables read from an antibodies.tsv
AntibodyTables == SeqsOf(AntibodyRows, 0, MaxRows)

\* a frame with the column target, in the order of the file
TargetFrame(rows) == get_ch_info_from_antibodies_meta(read_table(rows))

\* a frame with the column target, as sort_by_cycle indexes it
IndexedFrame(rows) == get_ch_info_from_antibodies_meta(sort_by_cycle(rows).ret)

\* the antibodies_df of the name resolution: any table with its targets, or
\* None when no file was found
AntibodyFrames ==
    {Some(TargetFrame(rows)) : rows \in AntibodyTables} \cup {None}

\* the antb_info of the annotation emission: a table sort_by_cycle indexed,
\* with its targets, or None when no file was found
AntibodyInfos ==
    {Some(IndexedFrame(rows)) :
        rows \in {t \in AntibodyTables : sort_by_cycle(t).exc = "none"}}
    \cup {None}

\* a row of og_ch_names_df as create_original_channel_names_df documents it:
\* Cycle and Channel numbers, the channel_name, and the channel_id
\* "cycle" + Cycle + "_ch" + Channel
OgRow(cycle, channel, channel_name) ==
    [Cycle |-> cycle, Channel |-> channel, channel_name |-> channel_name,
     channel_id |-> s_cycle \o str(cycle) \o s_ch \o str(channel)]

AcquiredChannels ==
    {OgRow(1, 2, <<"C","D","3","-","F","I","T","C">>),
     OgRow(1, 1, s_DAPI),
     OgRow(2, 2, <<>>)}

OgFrames == SeqsOf(AcquiredChannels, 0, MaxChannels)

\* the channel names of the document before the annotation: the names of
\* the name resolution, or the original names without a table
FinalNames(og_ch_names_df, antb_info) ==
    IF antb_info.present
    THEN replace_provider_ch_names_with_antb(og_ch_names_df, antb_info).ret
    ELSE [i \in 1..Len(og_ch_names_df) |-> og_ch_names_df[i].channel_name]

\* the OME-XML document before the annotation: one channel per acquired
\* channel, no annotation
XmlDocument(og_ch_names_df) ==
    [names |-> [i \in 1..Len(og_ch_names_df) |-> og_ch_names_df[i].channel_name],
     ids   |-> [i \in 1..Len(og_ch_names_df) |-> <<>>],
     structured_annotations |-> <<>>]

\* pieces of XML document texts
DocumentPieces ==
    {s_Image,
     <<"<","O","M","E",">","<","I","m","a","g","e",">">>,
     <<"<","/","I","m","a","g">>,
     <<"<","/","O","M","E",">">>}

RECURSIVE Join(_)
Join(pieces) ==
    IF Len(pieces) = 0 THEN <<>> ELSE Head(pieces) \o Join(Tail(pieces))

XmlStrings == {Join(ps) : ps \in SeqsOf(DocumentPieces, 1, MaxPieces)}

\* annotation blocks: the empty one, a short one, one that holds </Image>
AnnotationBlocks ==
    {<<>>, <<"<","S","A","/",">">>, <<"<","S",">">> \o s_Image}

\* file names of a walked directory tree
s_readme == <<"R","E","A","D","M","E">>
FileNames ==
    {s_tsv,
     <<"a","3","-","b","_">> \o s_tsv,
     <<"a",".">> \o s_tsv,
     s_tsv \o <<".","b","a","k">>,
     s_readme}

FileLists == SeqsOf(FileNames, 0, MaxFiles)

(***************************************************************************)
(* The caller: idle, or back from the call of one function.                *)
(***************************************************************************)
Init ==
    /\ fn = "idle"
    /\ args = NoArgs
    /\ ret = NoReturn
    /\ exc = "none"
    /\ xml = NoDocument

Call_add_cycle_channel_numbers ==
    /\ fn = "idle"
    /\ \E channel_names \in ChannelNameLists :
        /\ fn' = "add_cycle_channel_numbers"
        /\ args' = [channel_names |-> channel_names]
        /\ ret' = Returned("add_cycle_channel_numbers",
                        add_cycle_channel_numbers(channel_names))
        /\ exc' = "none"
        /\ xml' = NoDocument

Call_create_original_channel_names_df ==
    /\ fn = "idle"
    /\ \E channelList \in LabelLists :
        LET out == create_original_channel_names_df(channelList)
        IN /\ fn' = "create_original_channel_names_df"
           /\ args' = [channelList |-> channelList]
           /\ ret' = ReturnOf("create_original_channel_names_df", out)
           /\ exc' = out.exc
           /\ xml' = NoDocument

Call_get_analyte_name ==
    /\ fn = "idle"
    /\ \E antibody_name \in AntibodyNames :
        /\ fn' = "get_analyte_name"
        /\ args' = [antibody_name |-> antibody_name]
        /\ ret' = Returned("get_analyte_name", get_analyte_name(antibody_name))
        /\ exc' = "none"
        /\ xml' = NoDocument

Call_find_antibodies_meta ==
    /\ fn = "idle"
    /\ \E filenames \in FileLists :
        /\ fn' = "find_antibodies_meta"
        /\ args' = [filenames |-> filenames]
        /\ ret' = Returned("find_antibodies_meta", find_antibodies_meta(filenames))
        /\ exc' = "none"
        /\ xml' = NoDocument

Call_sort_by_cycle ==
    /\ fn = "idle"
    /\ \E rows \in AntibodyTables :
        LET out == sort_by_cycle(rows)
        IN /\ fn' = "sort_by_cycle"
           /\ args' = [rows |-> rows]
           /\ ret' = ReturnOf("sort_by_cycle", out)
           /\ exc' = out.exc
           /\ xml' = NoDocument

Call_replace_provider_ch_names_with_antb ==
    /\ fn = "idle"
    /\ \E og_ch_names_df \in OgFrames, antibodies_df \in AntibodyFrames :
        LET out == replace_provider_ch_names_with_antb(og_ch_names_df, antibodies_df)
        IN /\ fn' = "replace_provider_ch_names_with_antb"
           /\ args' = [og_ch_names_df |-> og_ch_names_df,
                       antibodies_df |-> antibodies_df]
           /\ ret' = ReturnOf("replace_provider_ch_names_with_antb", out)
           /\ exc' = out.exc
           /\ xml' = NoDocument

Call_get_original_names ==
    /\ fn = "idle"
    /\ \E og_ch_names_df \in OgFrames, antibodies_df \in AntibodyInfos :
        LET out == get_original_names(og_ch_names_df, antibodies_df)
        IN /\ fn' = "get_original_names"
           /\ args' = [og_ch_names_df |-> og_ch_names_df,
                       antibodies_df |-> antibodies_df]
           /\ ret' = ReturnOf("get_original_names", out)
           /\ exc' = out.exc
           /\ xml' = NoDocument

Call_generate_sa_ch_info ==
    /\ fn = "idle"
    /\ \E og_ch_names_info \in AcquiredChannels, antb_info \in AntibodyInfos :
        LET channel_id == s_Channel0 \o str(0)
            out == generate_sa_ch_info(channel_id, og_ch_names_info, antb_info)
        IN /\ fn' = "generate_sa_ch_info"
           /\ args' = [channel_id |-> channel_id,
                       og_ch_names_info |-> og_ch_names_info,
                       antb_info |-> antb_info]
           /\ ret' = ReturnOf("generate_sa_ch_info", out)
           /\ exc' = out.exc
           /\ xml' = NoDocument

Call_generate_structured_annotations ==
    /\ fn = "idle"
    /\ \E og_ch_names_df \in OgFrames, antb_info \in AntibodyInfos :
        LET channelNames == FinalNames(og_ch_names_df, antb_info)
            channel_ids  == generate_channel_ids(channelNames)
            out == generate_structured_annotations(XmlDocument(og_ch_names_df),
                       channel_ids, og_ch_names_df, antb_info, channelNames)
        IN /\ fn' = "generate_structured_annotations"
           /\ args' = [channel_ids |-> channel_ids,
                       og_ch_names_df |-> og_ch_names_df,
                       antb_info |-> antb_info,
                       channelNames |-> channelNames]
           /\ ret' = ReturnOf("generate_structured_annotations", out)
           /\ exc' = out.exc
           /\ xml' = out.xml

Call_add_structured_annotations ==
    /\ fn = "idle"
    /\ \E xml_string \in XmlStrings, sa_str \in AnnotationBlocks :
        /\ fn' = "add_structured_annotations"
        /\ args' = [xml_string |-> xml_string, sa_str |-> sa_str]
        /\ ret' = Returned("add_structured_annotations",
                        add_structured_annotations(xml_string, sa_str))
        /\ exc' = "none"
        /\ xml' = NoDocument

Return ==
    /\ fn # "idle"
    /\ fn' = "idle"
    /\ args' = NoArgs
    /\ ret' = NoReturn
    /\ exc' = "none"
    /\ xml' = NoDocument

Next ==
    \/ Call_add_cycle_channel_numbers
    \/ Call_create_original_channel_names_df
    \/ Call_get_analyte_name
    \/ Call_find_antibodies_meta
    \/ Call_sort_by_cycle
    \/ Call_replace_provider_ch_names_with_antb
    \/ Call_get_original_names
    \/ Call_generate_sa_ch_info
    \/ Call_generate_structured_annotations
    \/ Call_add_structured_annotations
    \/ Return

Spec == Init /\ [][Next]_vars

(***************************************************************************)
(* The claims.                                                             *)
(***************************************************************************)
\* the value of key k in a MapAnnotation, and its keys in their order
AnnotationKeys(annotation) == [i \in 1..Len(annotation) |-> annotation[i][1]]
AnnotationValue(annotation, k) ==
    annotation[CHOOSE i \in 1..Len(annotation) : annotation[i][1] = k][2]

SixKeys ==
    <<"Channel ID", "Name", "Original Name", "UniprotID", "RRID",
      "AntibodiesTsvID">>

\* the rows of a table whose index holds the (cycle, channel) of a channel
StructuralHits(frame, og_row) == loc(frame, <<og_row.Cycle, og_row.Channel>>)

\* the rows of a table whose lower-cased channel_id is that of a channel
StringHits(frame, og_row) ==
    {j \in 1..Len(frame.rows) :
        lower(frame.rows[j].channel_id) = lower(og_row.channel_id)}

SetMax(S) == CHOOSE x \in S : \A y \in S : y <= x

\* whether the call returned, and what
HasReturned == ret # NoReturn
Result == ret[fn]

\* C1: annotation emission gives one record per acquired channel, in
\* acquisition order, each with exactly the six keys Channel ID, Name,
\* Original Name, UniprotID, RRID, AntibodiesTsvID in that order; a channel
\* whose (cycle, channel) is not in the table gets Name = its channel_name and
\* UniprotID = RRID = AntibodiesTsvID = "None"
C1_OneCompleteRecordPerChannel ==
    (fn = "generate_structured_annotations" /\ args.antb_info.present) =>
        /\ exc = "none"
        /\ Len(Result.structured_annotations) = Len(args.og_ch_names_df)
        /\ \A i \in 1..Len(args.og_ch_names_df) :
            LET rec == Result.structured_annotations[i]
                og  == args.og_ch_names_df[i]
            IN /\ rec.present
               /\ AnnotationKeys(rec.value) = SixKeys
               /\ AnnotationValue(rec.value, "Channel ID") = args.channel_ids[i]
               /\ StructuralHits(args.antb_info.value, og) = {} =>
                    /\ AnnotationValue(rec.value, "Name") = og.channel_name
                    /\ AnnotationValue(rec.value, "UniprotID") = s_None
                    /\ AnnotationValue(rec.value, "RRID") = s_None
                    /\ AnnotationValue(rec.value, "AntibodiesTsvID") = s_None

\* a table whose channel_ids are pairwise different
UniqueChannelIds(frame) ==
    \A j, k \in 1..Len(frame.rows) :
        frame.rows[j].channel_id = frame.rows[k].channel_id => j = k

\* C2: with unique channel_ids and every acquired channel's (cycle, channel)
\* matching a table row, every record has Name = the row's target, Original
\* Name = the channel's channel_name, UniprotID, RRID and AntibodiesTsvID =
\* the row's uniprot_accession_number, rr_id and channel_id, none of them
\* "None"
C2_ResolvedRecordsCarryTheRow ==
    (/\ fn = "generate_structured_annotations"
     /\ args.antb_info.present
     /\ UniqueChannelIds(args.antb_info.value)
     /\ \A i \in 1..Len(args.og_ch_names_df) :
           Cardinality(StructuralHits(args.antb_info.value,
                                      args.og_ch_names_df[i])) = 1) =>
        /\ exc = "none"
        /\ Len(Result.structured_annotations) = Len(args.og_ch_names_df)
        /\ \A i \in 1..Len(args.og_ch_names_df) :
            LET rec == Result.structured_annotations[i]
                og  == args.og_ch_names_df[i]
                row == args.antb_info.value.rows[
                          CHOOSE j \in StructuralHits(args.antb_info.value, og) :
                              TRUE]
            IN /\ rec.present
               /\ AnnotationValue(rec.value, "Name")
                    = get_analyte_name(row.antibody_name)
               /\ AnnotationValue(rec.value, "Original Name") = og.channel_name
               /\ AnnotationValue(rec.value, "UniprotID")
                    = row.uniprot_accession_number
               /\ AnnotationValue(rec.value, "RRID") = row.rr_id
               /\ AnnotationValue(rec.value, "AntibodiesTsvID") = row.channel_id
               /\ AnnotationValue(rec.value, "UniprotID") # s_None
               /\ AnnotationValue(rec.value, "RRID") # s_None
               /\ AnnotationValue(rec.value, "AntibodiesTsvID") # s_None

\* C3: without an antibodies file (the table is None) the stages after it
\* run to completion without raising, and every channel is unresolved
C3_AbsentTableIsNotFatal ==
    /\ (fn = "generate_structured_annotations" /\ ~args.antb_info.present)
          => exc = "none"
    /\ (fn = "get_original_names" /\ ~args.antibodies_df.present)
          => (exc = "none" /\ \A i \in 1..Len(Result) : Result[i] = s_None)
    /\ (fn = "replace_provider_ch_names_with_antb" /\ ~args.antibodies_df.present)
          => (/\ exc = "none"
              /\ \A i \in 1..Len(Result) :
                    Result[i] = args.og_ch_names_df[i].channel_name)

\* C4: on a table indexed by sort_by_cycle the lookup of the lower-cased
\* channel_id string in the mapping of map_cycles_and_channels hits exactly
\* when the lookup of (cycle, channel) in the index hits, and both give the
\* same target, also for channel_ids with leading zeros or text around the
\* pattern
C4_StringAndStructuralLookupAgree ==
    (fn = "generate_sa_ch_info" /\ args.antb_info.present) =>
        LET by_string == dict_get(map_cycles_and_channels(args.antb_info.value),
                                  lower(args.og_ch_names_info.channel_id))
        IN /\ exc = "none"
           /\ Result.present <=> by_string.present
           /\ Result.present =>
                AnnotationValue(Result.value, "Name") = by_string.value

\* C5: replace_provider_ch_names_with_antb returns one name per acquired
\* channel, in their order: the target of the last row of the table whose
\* lower-cased channel_id is the channel's lower-cased channel_id, and the
\* channel's own channel_name when no row has it
C5_LastMatchingRowNamesTheChannel ==
    (fn = "replace_provider_ch_names_with_antb" /\ args.antibodies_df.present) =>
        /\ exc = "none"
        /\ Len(Result) = Len(args.og_ch_names_df)
        /\ \A i \in 1..Len(args.og_ch_names_df) :
            LET hits == StringHits(args.antibodies_df.value,
                                   args.og_ch_names_df[i])
            IN Result[i] = IF hits # {}
                        THEN args.antibodies_df.value.rows[SetMax(hits)].target
                        ELSE args.og_ch_names_df[i].channel_name

\* C5 happens: a channel two rows of different targets match, named by the
\* later one, beside a channel no row matches
C5_Witness ==
    /\ fn = "replace_provider_ch_names_with_antb"
    /\ args.antibodies_df.present
    /\ exc = "none"
    /\ \E i \in 1..Len(args.og_ch_names_df) :
        LET rows == args.antibodies_df.value.rows
            hits == StringHits(args.antibodies_df.value, args.og_ch_names_df[i])
        IN /\ Cardinality(hits) = 2
           /\ \E j, k \in hits : j < k /\ rows[j].target # rows[k].target
                                       /\ Result[i] = rows[k].target
    /\ \E i \in 1..Len(args.og_ch_names_df) :
        /\ StringHits(args.antibodies_df.value, args.og_ch_names_df[i]) = {}
        /\ Result[i] = args.og_ch_names_df[i].channel_name

\* C6: get_analyte_name("Anti-" + X + " antibody") is X for every X, and a
\* name with neither "Anti-" in front nor whitespace + "antibody" at its end
\* is returned as it is
C6_AntiXAntibodyGivesX ==
    fn = "get_analyte_name" =>
        /\ \A X \in Analytes :
              args.antibody_name = AntiXAntibody(X) => Result = X
        /\ (/\ ~StartsWithAt(args.antibody_name, s_Anti, 0)
            /\ ~\E i \in 0..Len(args.antibody_name) :
                  /\ i < Len(args.antibody_name)
                  /\ IsSpace(args.antibody_name[i + 1])
                  /\ SliceFrom(args.antibody_name,
                               SpaceRunEnd(args.antibody_name, i)) = s_antibody)
              => Result = args.antibody_name

\* whether a channel_id holds cycle<digits>_ch<digits>, in any case
HasCycleChannel(channel_id) ==
    \E i \in 0..Len(channel_id) : cycle_channel_match_at(channel_id, i)

\* C7: sort_by_cycle fails and returns no table when a channel_id lacks
\* cycle<digits>_ch<digits>; otherwise it returns the rows it was given,
\* none added, dropped or altered, ascending by cycle and then channel, both
\* compared as numbers
C7_SortByCycleThenChannel ==
    fn = "sort_by_cycle" =>
        IF \E i \in 1..Len(args.rows) : ~HasCycleChannel(args.rows[i].channel_id)
        THEN exc # "none" /\ ~HasReturned
        ELSE /\ exc = "none"
             /\ Len(Result.rows) = Len(args.rows)
             /\ \E p \in Permutations(1..Len(args.rows)) :
                   \A i \in 1..Len(args.rows) : Result.rows[i] = args.rows[p[i]]
             /\ \A i \in 1..(Len(Result.rows) - 1) :
                   LET j == cycle_channel_key(Result.rows[i].channel_id)
                       k == cycle_channel_key(Result.rows[i + 1].channel_id)
                   IN j[1] < k[1] \/ (j[1] = k[1] /\ j[2] <= k[2])

\* C7 happens: a table given with cycle 10 before cycle 2 comes back with
\* cycle 2 before cycle 10
C7_Witness ==
    /\ fn = "sort_by_cycle"
    /\ exc = "none"
    /\ Len(args.rows) = 2
    /\ cycle_channel_key(args.rows[1].channel_id)[1] = 10
    /\ cycle_channel_key(args.rows[2].channel_id)[1] = 2
    /\ Result.rows = <<args.rows[2], args.rows[1]>>

\* C8: without </Image> in the document add_structured_annotations raises
\* nothing and returns the document unchanged
C8_NoDelimiterIsNoOp ==
    (/\ fn = "add_structured_annotations"
     /\ ~\E i \in 0..Len(args.xml_string) :
            StartsWithAt(args.xml_string, s_Image, i)) =>
        exc = "none" /\ Result = args.xml_string

\* the offsets of </Image> in a text
ImageEnds(text) == {i \in 0..Len(text) : StartsWithAt(text, s_Image, i)}

SetMin(S) == CHOOSE x \in S : \A y \in S : x <= y

\* C9: with </Image> in the document add_structured_annotations returns
\* the text up to and including the first </Image>, the block, and the rest
\* of the text; taking the block out again gives the document
C9_BlockFollowsFirstImageEnd ==
    (fn = "add_structured_annotations" /\ ImageEnds(args.xml_string) # {}) =>
        LET doc   == args.xml_string
            block == args.sa_str
            cut   == SetMin(ImageEnds(doc)) + Len(s_Image)
        IN /\ exc = "none"
           /\ Result = SubSeq(doc, 1, cut) \o block \o SubSeq(doc, cut + 1, Len(doc))
           /\ Len(Result) = Len(doc) + Len(block)
           /\ SubSeq(Result, 1, cut) \o SubSeq(Result, cut + Len(block) + 1, Len(Result))
                = doc
           /\ SubSeq(Result, cut + 1, cut + Len(block)) = block

\* C9 happens: a document with two </Image> and text after each gets a
\* block of some length behind the first
C9_Witness ==
    /\ fn = "add_structured_annotations"
    /\ Cardinality(ImageEnds(args.xml_string)) = 2
    /\ Len(args.sa_str) > 0
    /\ SetMax(ImageEnds(args.xml_string)) + Len(s_Image) < Len(args.xml_string)
    /\ SubSeq(Result, SetMin(ImageEnds(args.xml_string)) + Len(s_Image) + 1,
              SetMin(ImageEnds(args.xml_string)) + Len(s_Image)
                  + Len(args.sa_str)) = args.sa_str

\* the labels add_cycle_channel_numbers gives are
\* cyc<(i div 4)+1>_ch<(i mod 4)+1>_orig<name> for the i-th name from 0
LabelsCountFourPerCycle ==
    fn = "add_cycle_channel_numbers" =>
        /\ Len(Result) = Len(args.channel_names)
        /\ \A n \in 1..Len(Result) :
              Result[n] = s_cyc \o str(((n - 1) \div 4) + 1) \o s_ch
                         \o str(((n - 1) % 4) + 1) \o s_orig
                         \o args.channel_names[n]

\* C10: the labels of add_cycle_channel_numbers are
\* cyc<(i div 4)+1>_ch<(i mod 4)+1>_orig<name>, and
\* create_original_channel_names_df recovers from them, without failing,
\* Cycle = (i div 4)+1, Channel = (i mod 4)+1, channel_name = the name and
\* channel_id = "cycle" + Cycle + "_ch" + Channel
C10_LabelRoundTrip ==
    /\ LabelsCountFourPerCycle
    /\ (/\ fn = "create_original_channel_names_df"
        /\ \E ns \in ChannelNameLists :
              args.channelList = add_cycle_channel_numbers(ns)) =>
          /\ exc = "none"
          /\ Len(Result) = Len(args.channelList)
          /\ \A n \in 1..Len(args.channelList) :
                /\ Result[n].Cycle = ((n - 1) \div 4) + 1
                /\ Result[n].Channel = ((n - 1) % 4) + 1
                /\ args.channelList[n]
                     = new_name(Result[n].Cycle, Result[n].Channel, Result[n].channel_name)
                /\ Result[n].channel_id
                     = s_cycle \o str(Result[n].Cycle) \o s_ch \o str(Result[n].Channel)
====
